---- MODULE Spec2Model ----
(***************************************************************************)
(* A model of the rendering core of rendology:                             *)
(*   - Resources::create / get_object_buffers          (src/src/lib.rs)    *)
(*   - RenderList::add / add_instance / render / clear (src/src/lib.rs)    *)
(*   - UniformsPair and the uniform producers                              *)
(*       (src/src/pipeline/instance.rs, light.rs, conduit.rs)              *)
(*   - the conduit shader core                (src/src/pipeline/conduit.rs)*)
(*                                                                         *)
(* Matrices, vectors and floats are abstract values written as strings;    *)
(* each field draws from its own small domain, so that a value bound under *)
(* the wrong name or taken from the wrong instance is visible.             *)
(* An optional value (Option / Result payload) is a sequence of length     *)
(* at most one.  A Rust Vec is a sequence; Rust index i is TLA+ index i+1. *)
(***************************************************************************)
EXTENDS Integers, Sequences, FiniteSets, TLC

VARIABLES
    resources,      \* <<>> or <<r>>: the Resources value the caller holds
    createResult,   \* outcome of the last Resources::create ("none" before)
    createLog,      \* creation steps attempted by the last Resources::create
    instances,      \* RenderList::instances
    drawLog,        \* draw calls issued on the target by the last operation
    result,         \* value returned by the last operation if a render, else "none"
    ctxArg,         \* <<c>>: the Context passed to the last operation if a render
    lastOp,         \* name of the last operation performed
    inserted,       \* history: instances passed to add/add_instance since
                    \*   the list was new or last cleared, in call order
    dropped,        \* history: <<n>> when the last add or clear was a clear,
                    \*   which dropped n instances; <<>> otherwise
    createFail,     \* history: first step the last create's facade fails
    firstFail,      \* history: first draw call the last render's surface
                    \*   fails (0 for none, or when the last op is no render)
    streak,         \* history: successful renders in a row with one Context
                    \*   (counted to 2), ending with the last operation
    pairA,          \* UniformsPair.0, a uniform producer
    pairB,          \* UniformsPair.1, a uniform producer
    pairOut,        \* calls received by the visitor of the pair
    coreVertexOut,  \* VertexCore::out_defs of the core being composed
    coreFragmentIn, \* FragmentCore::in_defs of the core being composed
    composeResult,  \* outcome of composing that core
    producer,       \* which InstanceParams implementation produced `produced`
    produced        \* calls received by the visitor of producer.uniforms()

vars == <<resources, createResult, createLog, instances, drawLog, result,
          ctxArg, lastOp, inserted, dropped, createFail, firstFail, streak,
          pairA, pairB, pairOut, coreVertexOut,
          coreFragmentIn, composeResult, producer, produced>>

renderVars  == <<resources, createResult, createLog, instances, drawLog,
                 result, ctxArg, inserted, dropped, createFail, firstFail,
                 streak>>
pairVars    == <<pairA, pairB, pairOut>>
shaderVars  == <<coreVertexOut, coreFragmentIn, composeResult>>
uniformVars == <<producer, produced>>

(***************************************************************************)
(* Bounds of the model.                                                    *)
(***************************************************************************)
MaxInstances == 2   \* longest RenderList explored
MaxUniforms  == 2   \* most entries of a producer handed to UniformsPair
MaxDefs      == 3   \* most declarations in out_defs / in_defs of a core

(***************************************************************************)
(* Object kinds.  The Object enum is declared in object.rs, which is not   *)
(* among the sources modelled here; lib.rs uses it as the dense range      *)
(* 0 .. NumTypes-1 through FromPrimitive / ToPrimitive.  Two kinds are     *)
(* modelled.                                                               *)
(***************************************************************************)
NumTypes == 2

Kinds == 0 .. (NumTypes - 1)

\* num_traits::FromPrimitive::from_u32 for Object: Some(kind) or None.
from_u32(i) == IF i \in Kinds THEN <<i>> ELSE <<>>

\* num_traits::ToPrimitive::to_usize for Object: Some(index).
to_usize(object) == <<object>>

\* Option::unwrap / Result::unwrap on a value that is present.
unwrap(opt) == opt[1]

(***************************************************************************)
(* Abstract value domains.                                                 *)
(***************************************************************************)
Transforms  == {"M0", "M1"}
Colors      == {"red", "white"}
Views       == {"V0"}
Projections == {"P0"}
LightPoints == {"L0"}
Points      == {"origin", "L1"}
Floats      == {"0.0", "0.5", "1.0"}
Times       == {"0.0", "1.0"}
Vectors     == {"zeros", "ones"}
Bools       == {"false", "true"}

\* object::InstanceParams as used by lib.rs (transform and color), which is
\* also DefaultInstanceParams of pipeline/instance.rs.
InstanceParamsSet == [transform : Transforms, color : Colors]

InstanceSet == [object : Kinds, params : InstanceParamsSet]

\* Context: camera (view, projection), elapsed time; instance.rs also reads
\* main_light_pos.
Contexts == [view : Views, projection : Projections,
             main_light_pos : LightPoints, elapsed_time_secs : Times]

(***************************************************************************)
(* glium's uniform! macro.  uniform!{a: x, b: y} builds                     *)
(* UniformsStorage::new("a", x).add("b", y); add wraps the storage built so *)
(* far as `rest`, and visit_values outputs its own entry before visiting    *)
(* `rest`.  The visitor therefore receives the fields last to first.        *)
(* `fields` is the field list as written; the result is the visit sequence. *)
(***************************************************************************)
Entry(name, value) == [name |-> name, value |-> value]

Reverse(s) == [i \in 1 .. Len(s) |-> s[Len(s) + 1 - i]]

uniform(fields) == Reverse(fields)

(***************************************************************************)
(* Resources::create.                                                      *)
(* The environment of a call (the facade) decides which create_buffers     *)
(* calls fail, whether the program compiles, and which kinds come with an  *)
(* index buffer.                                                           *)
(***************************************************************************)
Facades == [failKinds : SUBSET Kinds, programFails : BOOLEAN,
            indexed : [Kinds -> BOOLEAN]]

\* Object::create_buffers (object.rs): the buffers of one kind, or an error.
create_buffers(object, facade) ==
    IF object \in facade.failKinds
    THEN [ok |-> FALSE, value |-> <<>>]
    ELSE [ok |-> TRUE,
          value |-> <<[vertex_buffer |-> object,
                       index_buffer |-> IF facade.indexed[object]
                                        THEN "IndexBuffer" ELSE "NoIndices"]>>]

Step(what, kind, ok) == [what |-> what, kind |-> kind, ok |-> ok]

Program == "program140"

\* The program! invocation of create, after the loop.
CompileProgram(object_buffers, log, facade) ==
    IF facade.programFails
    THEN [result   |-> "ProgramChooserCreationError",
          value    |-> <<>>,
          log      |-> Append(log, Step("program", NumTypes, FALSE))]
    ELSE [result   |-> "Ok",
          value    |-> <<[object_buffers |-> object_buffers,
                          program |-> Program]>>,
          log      |-> Append(log, Step("program", NumTypes, TRUE))]

\* A loop starting one kind late.
FirstKindLate == 0 + 1

\* First index of the creation loop: for i in 0 .. NumTypes.
FirstKind == 0

\* A loop without the `?`: a failed create_buffers is noted and the next
\* kind is tried; the error is returned once the loop is over.
RECURSIVE CreateLoopLate(_, _, _, _)
CreateLoopLate(i, object_buffers, log, facade) ==
    IF i >= NumTypes
    THEN IF \E j \in DOMAIN log : ~log[j].ok
         THEN [result |-> "ObjectCreationError", value |-> <<>>, log |-> log]
         ELSE CompileProgram(object_buffers, log, facade)
    ELSE LET object == unwrap(from_u32(i))
             made   == create_buffers(object, facade)
         IN  IF made.ok
             THEN CreateLoopLate(i + 1,
                                 Append(object_buffers, unwrap(made.value)),
                                 Append(log, Step("buffers", i, TRUE)), facade)
             ELSE CreateLoopLate(i + 1, object_buffers,
                                 Append(log, Step("buffers", i, FALSE)),
                                 facade)

\* The loop `for i in 0 .. Object::NumTypes as u32` with its `?`.
RECURSIVE CreateLoop(_, _, _, _)
CreateLoop(i, object_buffers, log, facade) ==
    IF i >= NumTypes
    THEN CompileProgram(object_buffers, log, facade)
    ELSE LET object == unwrap(from_u32(i))
             made   == create_buffers(object, facade)
         IN  IF made.ok
             THEN CreateLoop(i + 1, Append(object_buffers, unwrap(made.value)),
                             Append(log, Step("buffers", i, TRUE)), facade)
             ELSE [result |-> "ObjectCreationError",
                   value  |-> <<>>,
                   log    |-> Append(log, Step("buffers", i, FALSE))]

create(facade) == CreateLoop(FirstKind, <<>>, <<>>, facade)

\* Resources::get_object_buffers: index the Vec by the kind's number.
BufferIndex(object) == unwrap(to_usize(object)) + 1

get_object_buffers(res, object) == res.object_buffers[BufferIndex(object)]

(***************************************************************************)
(* RenderList.                                                             *)
(***************************************************************************)
new == <<>>

\* An add_instance that inserts at the front.
add_instance_front(list, instance) == <<instance>> \o list

add_instance(list, instance) == Append(list, instance)

add(list, object, params) ==
    add_instance(list, [object |-> object, params |-> params])

\* A clear that drops the last instance only.
clear_last(list) ==
    IF list = <<>> THEN <<>> ELSE SubSeq(list, 1, Len(list) - 1)

clear(list) == <<>>

\* glium::DrawParameters built by render.
DrawParameters ==
    [backface_culling |-> "CullClockwise", depth_test |-> "IfLess",
     depth_write |-> TRUE]

\* The uniform! block of render for one instance.
RenderUniforms(context, instance) ==
    uniform(<<Entry("mat_model", instance.params.transform),
              Entry("mat_view", context.view),
              Entry("mat_projection", context.projection),
              Entry("color", instance.params.color),
              Entry("t", context.elapsed_time_secs)>>)

\* target.draw(vertex_buffer, indices, program, uniforms, params), with the
\* surface's answer `ok`.
draw(vertex_buffer, indices, program, uniforms, params, ok) ==
    [vertex_buffer |-> vertex_buffer, indices |-> indices,
     program |-> program, uniforms |-> uniforms, params |-> params,
     ok |-> ok]

\* The body of render's loop for one instance, up to the `?`.
DrawCall(res, context, instance, ok) ==
    LET buffers  == get_object_buffers(res, instance.object)
        uniforms == RenderUniforms(context, instance)
    IN  IF buffers.index_buffer = "IndexBuffer"
        THEN draw(buffers.vertex_buffer, "IndexBuffer", res.program,
                  uniforms, DrawParameters, ok)
        ELSE draw(buffers.vertex_buffer, "NoIndices", res.program,
                  uniforms, DrawParameters, ok)

\* A loop that drops a DrawError and carries on with the next instance.
RECURSIVE RenderLoopSwallowing(_, _, _, _, _, _)
RenderLoopSwallowing(k, list, res, context, failing, calls) ==
    IF k > Len(list)
    THEN [result |-> "Ok", calls |-> calls]
    ELSE LET ok   == (Len(calls) + 1) \notin failing
             call == DrawCall(res, context, list[k], ok)
         IN  RenderLoopSwallowing(k + 1, list, res, context, failing,
                                  Append(calls, call))

\* The loop of render.  `failing` is the target surface: the set of draw call
\* numbers (1 = first call of this render) it answers with a DrawError.
RECURSIVE RenderLoop(_, _, _, _, _, _)
RenderLoop(k, list, res, context, failing, calls) ==
    IF k > Len(list)
    THEN [result |-> "Ok", calls |-> calls]
    ELSE LET ok   == (Len(calls) + 1) \notin failing
             call == DrawCall(res, context, list[k], ok)
         IN  IF ok
             THEN RenderLoop(k + 1, list, res, context, failing,
                             Append(calls, call))
             ELSE [result |-> "DrawError", calls |-> Append(calls, call)]

\* A render that empties the list once it has drawn it.
render_draining(list, res, context, failing) ==
    LET r == RenderLoop(1, list, res, context, failing, <<>>)
    IN  [result |-> r.result, calls |-> r.calls,
         list |-> <<>>, resources |-> res]

\* RenderList::render.  `self` and `resources` are shared borrows: the call
\* hands both back as it received them.
render(list, res, context, failing) ==
    LET r == RenderLoop(1, list, res, context, failing, <<>>)
    IN  [result |-> r.result, calls |-> r.calls,
         list |-> list, resources |-> res]

(***************************************************************************)
(* Actions of the render specification.                                    *)
(***************************************************************************)
\* What an operation other than render leaves in the render observations.
NoRender ==
    /\ drawLog' = <<>>
    /\ result' = "none"
    /\ ctxArg' = <<>>
    /\ firstFail' = 0
    /\ streak' = 0

\* The first creation step the facade fails: a kind's number, NumTypes for
\* the program, -1 when every step succeeds.
FirstFailingStep(facade) ==
    IF facade.failKinds # {}
    THEN CHOOSE k \in facade.failKinds : \A j \in facade.failKinds : k <= j
    ELSE IF facade.programFails THEN NumTypes ELSE -1

\* The first draw call of a render over n instances that the surface fails,
\* 0 when it fails none of them.
FirstFailingCall(failing, n) ==
    LET hit == failing \cap (1 .. n)
    IN  IF hit = {} THEN 0 ELSE CHOOSE k \in hit : \A j \in hit : k <= j

Create ==
    /\ resources = <<>>
    /\ \E facade \in Facades :
          LET r == create(facade)
          IN  /\ resources' = r.value
              /\ createResult' = r.result
              /\ createLog' = r.log
              /\ createFail' = FirstFailingStep(facade)
    /\ NoRender
    /\ lastOp' = "create"
    /\ UNCHANGED <<instances, inserted, dropped>>
    /\ UNCHANGED <<pairVars, shaderVars, uniformVars>>

AddInstance ==
    /\ Len(instances) < MaxInstances
    /\ \E instance \in InstanceSet :
          /\ instances' = add_instance(instances, instance)
          /\ inserted' = Append(inserted, instance)
    /\ dropped' = <<>>
    /\ NoRender
    /\ lastOp' = "add_instance"
    /\ UNCHANGED <<resources, createResult, createLog, createFail>>
    /\ UNCHANGED <<pairVars, shaderVars, uniformVars>>

Add ==
    /\ Len(instances) < MaxInstances
    /\ \E object \in Kinds, params \in InstanceParamsSet :
          /\ instances' = add(instances, object, params)
          /\ inserted' = Append(inserted,
                                [object |-> object, params |-> params])
    /\ dropped' = <<>>
    /\ NoRender
    /\ lastOp' = "add"
    /\ UNCHANGED <<resources, createResult, createLog, createFail>>
    /\ UNCHANGED <<pairVars, shaderVars, uniformVars>>

Clear ==
    /\ instances' = clear(instances)
    /\ inserted' = <<>>
    /\ dropped' = <<Len(inserted)>>
    /\ NoRender
    /\ lastOp' = "clear"
    /\ UNCHANGED <<resources, createResult, createLog, createFail>>
    /\ UNCHANGED <<pairVars, shaderVars, uniformVars>>

Render ==
    /\ resources # <<>>
    /\ \E context \in Contexts, failing \in SUBSET (1 .. Len(instances)) :
          LET r == render(instances, unwrap(resources), context, failing)
          IN  /\ drawLog' = r.calls
              /\ result' = r.result
              /\ instances' = r.list
              /\ resources' = <<r.resources>>
              /\ ctxArg' = <<context>>
              /\ firstFail' = FirstFailingCall(failing, Len(instances))
              /\ streak' = IF r.result # "Ok" THEN 0
                           ELSE IF streak >= 1 /\ ctxArg = <<context>>
                                THEN 2 ELSE 1
    /\ lastOp' = "render"
    /\ UNCHANGED <<createResult, createLog, createFail, inserted, dropped>>
    /\ UNCHANGED <<pairVars, shaderVars, uniformVars>>

(***************************************************************************)
(* Uniform producers (the InstanceParams implementations) and UniformsPair.*)
(* A producer is modelled by what its visit_values hands to the visitor:   *)
(* the sequence of (name, value) calls.                                    *)
(***************************************************************************)
\* InstanceParams for Context (pipeline/instance.rs).
ContextUniforms(context) ==
    uniform(<<Entry("mat_view", context.view),
              Entry("mat_projection", context.projection),
              Entry("light_pos", context.main_light_pos),
              Entry("t", context.elapsed_time_secs)>>)

\* A DefaultInstanceParams binding its transform under another name.
DefaultUniformsRenamed(params) ==
    uniform(<<Entry("model", params.transform),
              Entry("color", params.color)>>)

\* InstanceParams for DefaultInstanceParams (pipeline/instance.rs).
DefaultUniforms(params) ==
    uniform(<<Entry("mat_model", params.transform),
              Entry("color", params.color)>>)

\* conduit::Params and its InstanceParams implementation.
ConduitParamsSet == [transform : Transforms, color : Colors, phase : Floats,
                     start : Floats, end : Floats]

ConduitUniforms(params) ==
    uniform(<<Entry("mat_model", params.transform),
              Entry("color", params.color),
              Entry("phase", params.phase),
              Entry("start", params.start),
              Entry("end", params.end)>>)

\* Light and its InstanceParams implementation.
Lights == [position : Points, attenuation : Vectors, color : Vectors,
           is_main : Bools]

LightUniforms(light) ==
    uniform(<<Entry("light_position", light.position),
              Entry("light_attenuation", light.attenuation),
              Entry("light_color", light.color),
              Entry("light_is_main", light.is_main)>>)

\* One call output(x, y) of a visitor closure.
output(x, y) == Entry(x, y)

\* visit_values of a producer with entries `u`, on a visitor that has
\* received `out` so far: every entry is handed to the visitor in turn.
visit_values(u, out) ==
    out \o [i \in 1 .. Len(u) |-> output(u[i].name, u[i].value)]

\* A pair that visits self.1 before self.0.
UniformsPair_visit_values_swapped(p0, p1, out) ==
    visit_values(p0, visit_values(p1, out))

\* UniformsPair::visit_values: self.0 is visited, then self.1, each through
\* a closure that forwards to the one visitor.
UniformsPair_visit_values(p0, p1, out) ==
    visit_values(p1, visit_values(p0, out))

\* Producers handed to UniformsPair in the pairing specification.
PairNames  == {"x", "y", "z"}
PairValues == {"a", "b"}
PairEntries == [name : PairNames, value : PairValues]

RECURSIVE SeqsUpTo(_, _)
SeqsUpTo(S, n) ==
    IF n = 0 THEN {<<>>}
    ELSE LET shorter == SeqsUpTo(S, n - 1)
         IN  shorter \cup {Append(q, x) : q \in shorter, x \in S}

Producers == SeqsUpTo(PairEntries, MaxUniforms)

(***************************************************************************)
(* Shader cores.  A declaration is ((name, type), qualifier).  The conduit *)
(* core is the one pipeline/conduit.rs builds; the composer that links a   *)
(* core (shader.rs) is modelled from its specified contract: every input   *)
(* the fragment stage declares must be an output of the vertex stage or a  *)
(* built-in attribute, else composition fails naming the input.            *)
(***************************************************************************)
Def(name, type, qualifier) ==
    [name |-> name, type |-> type, qualifier |-> qualifier]

V_DISCARD == "v_discard"

v_discard == Def(V_DISCARD, "Float", "Smooth")

v_world_normal_def == Def("v_world_normal", "FloatVec3", "Smooth")

v_world_pos_def == Def("v_world_pos", "FloatVec4", "Smooth")

\* A vertex stage that leaves v_discard undeclared.
ConduitVertexOutDefsShort == <<v_world_normal_def, v_world_pos_def>>

ConduitVertexOutDefs == <<v_world_normal_def, v_world_pos_def, v_discard>>

ConduitFragmentInDefs == <<v_discard>>

\* shader::Core { vertex, fragment } returned by conduit::core().
core == [vertex_out_defs  |-> ConduitVertexOutDefs,
         fragment_in_defs |-> ConduitFragmentInDefs]

BuiltinAttributes == {"position", "normal"}

DefNames(defs) == {defs[i].name : i \in DOMAIN defs}

Unproduced(d, vertex_out_defs) ==
    d.name \notin (DefNames(vertex_out_defs) \cup BuiltinAttributes)

\* Composition: validate the stage interface, first offender reported.
compose(vertex_out_defs, fragment_in_defs) ==
    LET bad == SelectSeq(fragment_in_defs,
                         LAMBDA d : Unproduced(d, vertex_out_defs))
    IN  IF bad = <<>>
        THEN [ok |-> TRUE, missing |-> <<>>]
        ELSE [ok |-> FALSE, missing |-> <<bad[1].name>>]

\* Declarations the composed cores are drawn from.
VertexDefs == {v_world_normal_def, v_world_pos_def, v_discard}

FragmentDefs == VertexDefs \cup
    {Def("position", "FloatVec3", "Smooth"), Def("normal", "FloatVec3", "Smooth")}

(***************************************************************************)
(* Actions of the pairing, shader and uniform-producer specifications.     *)
(***************************************************************************)
\* Visit UniformsPair(pairA, pairB) with a fresh visitor.
VisitPair ==
    /\ lastOp = "init"
    /\ pairOut' = UniformsPair_visit_values(pairA, pairB, <<>>)
    /\ lastOp' = "visit_pair"
    /\ UNCHANGED <<pairA, pairB>>
    /\ UNCHANGED <<renderVars, shaderVars, uniformVars>>

\* Compose the core held in coreVertexOut / coreFragmentIn.
ComposeCore ==
    /\ lastOp = "init"
    /\ composeResult' = compose(coreVertexOut, coreFragmentIn)
    /\ lastOp' = "compose"
    /\ UNCHANGED <<coreVertexOut, coreFragmentIn>>
    /\ UNCHANGED <<renderVars, pairVars, uniformVars>>

\* Build the conduit core and compose it.
ComposeConduit ==
    /\ lastOp = "init"
    /\ coreVertexOut' = core.vertex_out_defs
    /\ coreFragmentIn' = core.fragment_in_defs
    /\ composeResult' = compose(core.vertex_out_defs, core.fragment_in_defs)
    /\ lastOp' = "compose_conduit"
    /\ UNCHANGED <<renderVars, pairVars, uniformVars>>

ProduceContext ==
    /\ \E context \in Contexts :
          produced' = visit_values(ContextUniforms(context), <<>>)
    /\ producer' = "Context"
    /\ lastOp' = "uniforms"
    /\ UNCHANGED <<renderVars, pairVars, shaderVars>>

ProduceDefault ==
    /\ \E params \in InstanceParamsSet :
          produced' = visit_values(DefaultUniforms(params), <<>>)
    /\ producer' = "DefaultInstanceParams"
    /\ lastOp' = "uniforms"
    /\ UNCHANGED <<renderVars, pairVars, shaderVars>>

ProduceConduit ==
    /\ \E params \in ConduitParamsSet :
          produced' = visit_values(ConduitUniforms(params), <<>>)
    /\ producer' = "conduit::Params"
    /\ lastOp' = "uniforms"
    /\ UNCHANGED <<renderVars, pairVars, shaderVars>>

ProduceLight ==
    /\ \E light \in Lights :
          produced' = visit_values(LightUniforms(light), <<>>)
    /\ producer' = "Light"
    /\ lastOp' = "uniforms"
    /\ UNCHANGED <<renderVars, pairVars, shaderVars>>

InitRender ==
    /\ resources = <<>>
    /\ createResult = "none"
    /\ createLog = <<>>
    /\ instances = new
    /\ drawLog = <<>>
    /\ result = "none"
    /\ ctxArg = <<>>
    /\ inserted = <<>>
    /\ dropped = <<>>
    /\ createFail = -1
    /\ firstFail = 0
    /\ streak = 0

InitPair ==
    /\ pairA = <<>>
    /\ pairB = <<>>
    /\ pairOut = <<>>

InitShader ==
    /\ coreVertexOut = <<>>
    /\ coreFragmentIn = <<>>
    /\ composeResult = [ok |-> TRUE, missing |-> <<>>]

InitUniforms ==
    /\ producer = "none"
    /\ produced = <<>>

Init ==
    /\ InitRender
    /\ InitPair
    /\ InitShader
    /\ InitUniforms
    /\ lastOp = "init"

Next ==
    \/ Create
    \/ AddInstance
    \/ Add
    \/ Clear
    \/ Render

Spec == Init /\ [][Next]_vars

\* Pairing: the two producers are the inputs; the visit is the operation.
InitPairing ==
    /\ InitRender
    /\ pairA \in Producers
    /\ pairB \in Producers
    /\ pairOut = <<>>
    /\ InitShader
    /\ InitUniforms
    /\ lastOp = "init"

NextPairing == VisitPair

SpecPairing == InitPairing /\ [][NextPairing]_vars

\* Shader composition: the two declaration lists are the inputs.
InitComposing ==
    /\ InitRender
    /\ InitPair
    /\ coreVertexOut \in SeqsUpTo(VertexDefs, MaxDefs)
    /\ coreFragmentIn \in SeqsUpTo(FragmentDefs, MaxDefs)
    /\ composeResult = [ok |-> TRUE, missing |-> <<>>]
    /\ InitUniforms
    /\ lastOp = "init"

NextComposing ==
    \/ ComposeCore
    \/ ComposeConduit

SpecComposing == InitComposing /\ [][NextComposing]_vars

\* Uniform producers: each implementation's uniforms() is visited.
NextUniforms ==
    \/ ProduceContext
    \/ ProduceDefault
    \/ ProduceConduit
    \/ ProduceLight

SpecUniforms == Init /\ [][NextUniforms]_vars

(***************************************************************************)
(* Properties.                                                             *)
(***************************************************************************)
\* The names a visitor received.
Names(visit) == {visit[i].name : i \in DOMAIN visit}

\* The value a uniform set binds under `name`: the last entry visited with
\* that name (a later write replaces an earlier one).
Bound(visit, name) ==
    LET at == {i \in DOMAIN visit : visit[i].name = name}
    IN  visit[CHOOSE i \in at : \A j \in at : j <= i].value

\* `call` is the draw of `instance`: the buffers created for its kind, the
\* shared program, and its own mat_model and color.
DrawnFor(call, instance) ==
    LET res == unwrap(resources)
    IN  /\ call.vertex_buffer = instance.object
        /\ call.indices = res.object_buffers[instance.object + 1].index_buffer
        /\ call.program = res.program
        /\ {"mat_model", "color"} \subseteq Names(call.uniforms)
        /\ Bound(call.uniforms, "mat_model") = instance.params.transform
        /\ Bound(call.uniforms, "color") = instance.params.color

\* C1: a render in which the surface fails no draw returns Ok and issues
\* exactly one draw call per instance added since the list was new or last
\* cleared, the k-th call being the draw of the k-th instance added.
C1_DrawsInInsertionOrder ==
    (lastOp = "render" /\ firstFail = 0) =>
        /\ result = "Ok"
        /\ Len(drawLog) = Len(inserted)
        /\ \A k \in 1 .. Len(inserted) :
              /\ k \in DOMAIN drawLog
              /\ drawLog[k].ok
              /\ DrawnFor(drawLog[k], inserted[k])

C1_Witness ==
    /\ lastOp = "render"
    /\ firstFail = 0
    /\ Len(inserted) >= 2
    /\ inserted[1].object # inserted[2].object
    /\ inserted[1].params # inserted[2].params
    /\ Len(drawLog) = Len(inserted)

\* C2: from a clear until the next add or add_instance the list is empty, and
\* a render made in between issues no draw call and returns Ok.
C2_ClearEmptiesList ==
    (dropped # <<>>) =>
        /\ instances = <<>>
        /\ (lastOp = "render" => (drawLog = <<>> /\ result = "Ok"))

C2_Witness ==
    /\ dropped # <<>>
    /\ unwrap(dropped) >= 2
    /\ lastOp = "render"
    /\ drawLog = <<>>
    /\ result = "Ok"

\* C3: when the k-th draw call of a render is the first the surface fails,
\* render returns DrawError, calls 1 .. k-1 were issued and succeeded, each
\* the draw of its instance, the k-th call is the failed draw of the k-th
\* instance, and no call follows it; render returns Ok only when no call
\* failed.
C3_DrawErrorAborts ==
    (lastOp = "render") =>
        /\ result \in {"Ok", "DrawError"}
        /\ (result = "Ok") <=> (\A j \in DOMAIN drawLog : drawLog[j].ok)
        /\ (firstFail > 0) =>
              /\ result = "DrawError"
              /\ Len(drawLog) = firstFail
              /\ ~drawLog[firstFail].ok
              /\ \A j \in 1 .. firstFail :
                    /\ (j < firstFail => drawLog[j].ok)
                    /\ DrawnFor(drawLog[j], instances[j])

C3_Witness ==
    /\ lastOp = "render"
    /\ result = "DrawError"
    /\ firstFail >= 1
    /\ Len(drawLog) < Len(instances)

\* C4: the visitor of UniformsPair(A, B) receives A's entries in A's order,
\* then B's entries in B's order, and nothing else; a name both sides hold
\* is received once from each.
C4_PairVisitsAThenB ==
    (lastOp = "visit_pair") =>
        /\ Len(pairOut) = Len(pairA) + Len(pairB)
        /\ \A i \in 1 .. Len(pairA) : pairOut[i] = pairA[i]
        /\ \A j \in 1 .. Len(pairB) : pairOut[Len(pairA) + j] = pairB[j]

C4_Witness ==
    /\ lastOp = "visit_pair"
    /\ Len(pairA) >= 2
    /\ Len(pairB) >= 1
    /\ pairA[1].name # pairA[2].name
    /\ \E i \in DOMAIN pairA, j \in DOMAIN pairB :
          /\ pairA[i].name = pairB[j].name
          /\ pairA[i].value # pairB[j].value
    /\ Len(pairOut) = Len(pairA) + Len(pairB)

\* The creation steps in the order create takes them.
CreationOrder ==
    [j \in 1 .. (NumTypes + 1) |->
        IF j <= NumTypes THEN [what |-> "buffers", kind |-> j - 1]
        ELSE [what |-> "program", kind |-> NumTypes]]

\* C5: create attempts the buffers of kinds 0, 1, ... in order and then the
\* program, stops at the first step that fails and returns that step's error
\* without a Resources value; it returns Ok, with a Resources value, exactly
\* when every step succeeded.
C5_CreateFailsFast ==
    (createResult # "none") =>
        LET n == Len(createLog)
        IN  /\ n >= 1
            /\ n <= NumTypes + 1
            /\ \A j \in 1 .. n :
                  /\ createLog[j].what = CreationOrder[j].what
                  /\ createLog[j].kind = CreationOrder[j].kind
                  /\ (j < n => createLog[j].ok)
            /\ (createFail = -1) =>
                  /\ createResult = "Ok"
                  /\ n = NumTypes + 1
                  /\ createLog[n].ok
            /\ (createFail \in Kinds) =>
                  /\ createResult = "ObjectCreationError"
                  /\ n = createFail + 1
                  /\ ~createLog[n].ok
            /\ (createFail = NumTypes) =>
                  /\ createResult = "ProgramChooserCreationError"
                  /\ n = NumTypes + 1
                  /\ ~createLog[n].ok
            /\ (createResult = "Ok") <=> (resources # <<>>)

C5_Witness ==
    /\ lastOp = "create"
    /\ createResult = "ObjectCreationError"
    /\ createFail = 0
    /\ Len(createLog) = 1
    /\ resources = <<>>

\* C6: a Resources value holds one buffer set per kind, the set at index i
\* being the one created for kind i, and get_object_buffers is in range and
\* returns the kind's own buffers for every kind.
C6_OneBufferSetPerKind ==
    (resources # <<>>) =>
        LET res == unwrap(resources)
        IN  /\ Len(res.object_buffers) = NumTypes
            /\ \A kind \in Kinds :
                  /\ BufferIndex(kind) \in DOMAIN res.object_buffers
                  /\ res.object_buffers[kind + 1].vertex_buffer = kind
                  /\ get_object_buffers(res, kind).vertex_buffer = kind

C6_Witness ==
    /\ lastOp = "create"
    /\ createResult = "Ok"
    /\ resources # <<>>
    /\ Len(unwrap(resources).object_buffers) >= 2

\* C7: composing a core succeeds exactly when every input the fragment stage
\* declares is a declared vertex output or a built-in attribute; a failure
\* names an input that is neither; the conduit core, with v_discard on both
\* sides, is accepted.
C7_CompositionChecksInputs ==
    (lastOp \in {"compose", "compose_conduit"}) =>
        LET unproduced == DefNames(coreFragmentIn) \
                            (DefNames(coreVertexOut) \cup BuiltinAttributes)
        IN  /\ composeResult.ok <=> (unproduced = {})
            /\ composeResult.ok => (composeResult.missing = <<>>)
            /\ ~composeResult.ok =>
                  /\ composeResult.missing # <<>>
                  /\ unwrap(composeResult.missing) \in unproduced
            /\ (lastOp = "compose_conduit") =>
                  /\ composeResult.ok
                  /\ V_DISCARD \in DefNames(coreFragmentIn)
                  /\ V_DISCARD \in DefNames(coreVertexOut)

C7_Witness ==
    /\ lastOp = "compose"
    /\ ~composeResult.ok
    /\ composeResult.missing = <<V_DISCARD>>
    /\ V_DISCARD \notin DefNames(coreVertexOut)
    /\ coreVertexOut # <<>>

\* C8: every draw call of a render binds the uniform set of
\* UniformsPair(context.uniforms(), instance.params.uniforms()): the
\* Context's entries first, then the instance's.
C8_DrawBindsPairedUniforms ==
    (lastOp = "render") =>
        \A k \in DOMAIN drawLog :
            drawLog[k].uniforms =
                UniformsPair_visit_values(
                    ContextUniforms(unwrap(ctxArg)),
                    DefaultUniforms(instances[k].params), <<>>)

\* C9: a render step leaves the instance list and the Resources as they
\* were, whatever it returns; a successful render that follows a successful
\* render with the same Context issues the same draw calls again.
C9_RenderKeepsListAndResources ==
    [][ /\ (lastOp' = "render") =>
              (instances' = instances /\ resources' = resources)
        /\ (/\ lastOp = "render" /\ result = "Ok"
            /\ lastOp' = "render" /\ result' = "Ok"
            /\ ctxArg' = ctxArg) => (drawLog' = drawLog) ]_vars

C9_Witness ==
    /\ lastOp = "render"
    /\ streak = 2
    /\ Len(instances) >= 2
    /\ Len(drawLog) = Len(instances)

\* The uniform names of the program uniform interface.
Vocabulary ==
    {"mat_model", "mat_view", "mat_projection", "color", "t",
     "phase", "start", "end",
     "light_position", "light_attenuation", "light_color", "light_is_main"}

\* C10 as stated: every name a producer emits is in the vocabulary.
C10_NamesInVocabulary ==
    Names(produced) \subseteq Vocabulary

\* C10, amended: every name a producer emits is in the vocabulary or is
\* light_pos, and only Context emits light_pos.
C10_NamesInVocabularyOrLightPos ==
    /\ Names(produced) \subseteq (Vocabulary \cup {"light_pos"})
    /\ (producer # "Context") => (Names(produced) \subseteq Vocabulary)
    /\ (producer = "Context") => ("light_pos" \in Names(produced))

C10_Witness ==
    /\ producer = "Context"
    /\ "light_pos" \in Names(produced)
    /\ "light_pos" \notin Vocabulary

====
